---- MODULE Spec2Model ----
(***************************************************************************)
(* nativebridge: the event registry of src/index.js (on, off, emit,       *)
(* onNative) and, on top of it, the one-shot subscription and the rpc     *)
(* layer that the test-suite exercises.                                    *)
(*                                                                         *)
(* JavaScript is single-threaded: a call from the application, a timer    *)
(* callback or an inbound 'nativebridge' event runs to completion before  *)
(* the next one starts.  A dispatch pass (the forEach of onNative) is     *)
(* modelled one handler invocation per step on a stack of passes, because *)
(* a handler may itself call on/off or cause a nested dispatch.           *)
(***************************************************************************)
EXTENDS Integers, Sequences, FiniteSets, TLC

\* ------------------------------------------------------------------ bounds
MaxLen == 2        \* longest handler list the environment builds per key
MaxDepth == 2      \* deepest nesting of dispatch passes
MaxSent == 2       \* emit calls that reach a native bridge
NumFn == 2         \* number of distinct application handler functions
MaxOnce == 1       \* once calls
MaxRpc == 1        \* rpc calls

\* ------------------------------------------------------------ JS values
\* A value passed as `type`: a string, null or a plain object.
StrT(s) == [t |-> "string", v |-> s]
NullT == [t |-> "null", v |-> ""]
ObjT == [t |-> "object", v |-> ""]
NumT(s) == [t |-> "number", v |-> s]
ArrT == [t |-> "array", v |-> ""]
FnT == [t |-> "function", v |-> ""]
UndefT == [t |-> "undefined", v |-> ""]

ValidTypes == {StrT("a"), StrT("b")}
InvalidTypes == {NullT, ObjT, StrT("")}
TypeArgs == ValidTypes \cup InvalidTypes

\* spec 3: an event-type name is a non-empty string
IsTypeName(type) == type.t = "string" /\ type.v # ""

\* a table that keeps every list under one key
ToPropertyKey_same(type) == "a"
\* events[type]: the property key a value is coerced to
ToPropertyKey(type) ==
  CASE type.t = "string" -> type.v
    [] type.t = "null" -> "null"
    [] OTHER -> "[object Object]"

Keys == {ToPropertyKey(t) : t \in TypeArgs}

\* A value passed as `handler`: a function, undefined or a plain object.
Fn(n) == [kind |-> "fn", id |-> n]
Undefined == [kind |-> "undefined", id |-> 0]
Obj == [kind |-> "object", id |-> 0]

Fns == {Fn(n) : n \in 1..NumFn}
HandlerArgs == Fns \cup {Undefined, Obj}

\* typeof handler === 'function'
IsFunction(handler) == handler.kind \in {"fn", "once", "rpc"}
\* the truthiness of `handler` in `handler && ...`
Truthy(handler) == handler.kind # "undefined"

\* a payload: the string "pong", or the object {errors: {message: 'fail',
\* errorCode: 123}}
Payloads == {"pong", "{errors}"}

\* ------------------------------------------------------------ the table
\* `events` is a JS object: a function whose domain is its own keys.
Lookup(ev, key) == IF key \in DOMAIN ev THEN ev[key] ELSE <<>>
Store(ev, key, list) ==
  [k \in DOMAIN ev \cup {key} |-> IF k = key THEN list ELSE ev[k]]
NoEvents == [k \in {} |-> <<>>]

\* on with unshift in place of push
on_unshift(ev, type, handler) ==
  IF ~IsFunction(handler)
  THEN [threw |-> "Error", events |-> ev]
  ELSE [threw |-> "none",
        events |-> Store(ev, ToPropertyKey(type),
                         <<handler>> \o Lookup(ev, ToPropertyKey(type)))]

\* on that skips a handler the list already holds
on_dedupe(ev, type, handler) ==
  IF ~IsFunction(handler)
  THEN [threw |-> "Error", events |-> ev]
  ELSE [threw |-> "none",
        events |-> Store(ev, ToPropertyKey(type),
                         IF \E n \in DOMAIN Lookup(ev, ToPropertyKey(type)) :
                              Lookup(ev, ToPropertyKey(type))[n] = handler
                         THEN Lookup(ev, ToPropertyKey(type))
                         ELSE Append(Lookup(ev, ToPropertyKey(type)),
                                     handler))]

\* on without the typeof check
on_unchecked(ev, type, handler) ==
  [threw |-> "none",
   events |-> Store(ev, ToPropertyKey(type),
                    Append(Lookup(ev, ToPropertyKey(type)), handler))]

\* function on (type, handler)
on(ev, type, handler) ==
  IF ~IsFunction(handler)
  THEN [threw |-> "Error", events |-> ev]
  ELSE [threw |-> "none",
        events |-> Store(ev, ToPropertyKey(type),
                         Append(Lookup(ev, ToPropertyKey(type)), handler))]

\* off whose filter lacks the `handler &&` guard
off_unguarded(ev, type, handler) ==
  [threw |-> "none",
   events |-> Store(ev, ToPropertyKey(type),
                    SelectSeq(Lookup(ev, ToPropertyKey(type)),
                              LAMBDA fn : fn # handler))]

\* off whose filter keeps the handler and drops the others
off_inverted(ev, type, handler) ==
  [threw |-> "none",
   events |-> Store(ev, ToPropertyKey(type),
                    SelectSeq(Lookup(ev, ToPropertyKey(type)),
                              LAMBDA fn : Truthy(handler) /\ fn = handler))]

\* function off (type, handler)
off(ev, type, handler) ==
  [threw |-> "none",
   events |-> Store(ev, ToPropertyKey(type),
                    SelectSeq(Lookup(ev, ToPropertyKey(type)),
                              LAMBDA fn : Truthy(handler) /\ fn # handler))]

\* ------------------------------------------------------------ transport
\* What the global `window` offers when emit looks at it.
WindowKinds == {"absent", "none", "webkit", "webkitBare", "android"}

EmitData == {"ping", "undefined"}
\* the default parameter `data = {}`
DefaultData(data) == IF data = "undefined" THEN "{}" ELSE data

\* JSON.stringify({type, data})
Stringify(type, data) ==
  "{\"type\":"
    \o (CASE type.t = "string" -> "\"" \o type.v \o "\""
          [] type.t = "null" -> "null"
          [] OTHER -> "{}")
    \o ",\"data\":"
    \o (IF data = "{}" THEN "{}" ELSE "\"" \o data \o "\"") \o "}"

\* what a bridge is handed: the envelope object (webkit) or its JSON text
\* (android)
Envelope(type, data) == [type |-> type, data |-> data]
NoEnvelope == Envelope(NullT, "")
Message(fmt, env, text) == [fmt |-> fmt, env |-> env, text |-> text]

\* function emit (type, data = {}): what the call does under `win`
emit(win, type, data) ==
  CASE win = "absent" ->
         [threw |-> "ReferenceError", res |-> "", msg |-> <<>>]
    [] win \in {"webkit", "webkitBare"} ->
         IF win = "webkit"
         THEN [threw |-> "none", res |-> "postMessage",
               msg |-> <<Message("object",
                                 Envelope(type, DefaultData(data)), "")>>]
         ELSE [threw |-> "TypeError", res |-> "", msg |-> <<>>]
    [] win = "android" ->
         [threw |-> "none", res |-> "on",
          msg |-> <<Message("json", NoEnvelope,
                            Stringify(type, DefaultData(data)))>>]
    [] OTHER ->
         [threw |-> "none", res |-> "console.log", msg |-> <<>>]

\* -------------------------------------------------------------- state
VARIABLES
  events,   \* const events = {}: key -> list of handlers
  stack,    \* the dispatch passes in progress, innermost last
  window,   \* the native bridge the page runs with
  sent,     \* what has been handed to the native bridge, per emit call
  calls,    \* the API calls made during the last step, in order
  subs,     \* history: the subscriptions the calls so far have left
  lastOff,  \* history: per type name, the off call that was the latest
            \* on/off call for the name, if any: its handler argument and
            \* the subscriptions it found
  onces,    \* the adapters made by once: the type and handler each wraps,
            \* and how often it has called the handler
  rpcs,     \* the rpc calls made: type, adapter, timer and the
            \* continuations invoked so far
  checked   \* the input validateRpcInput was applied to during the last
            \* step, and what came of it

vars == <<events, stack, window, sent, calls, subs, lastOff, onces, rpcs,
          checked>>

\* the input of rpc and validateRpcInput, and the result of validating it
RpcInput(type, data, resolve, reject, timeout) ==
  [type |-> type, data |-> data, resolve |-> resolve, reject |-> reject,
   timeout |-> timeout]
Verdict(threw, res, field) == [threw |-> threw, res |-> res, field |-> field]
NoCheck == [args |-> RpcInput(UndefT, UndefT, UndefT, UndefT, UndefT),
            out |-> Verdict("", "", "")]

\* One record stands for the whole state while a step is computed, so that
\* a handler's nested calls compose.
Cur == [events |-> events, stack |-> stack, window |-> window,
        sent |-> sent, calls |-> <<>>, subs |-> subs, lastOff |-> lastOff,
        onces |-> onces, rpcs |-> rpcs, checked |-> NoCheck]

Becomes(st) ==
  /\ events' = st.events
  /\ stack' = st.stack
  /\ window' = st.window
  /\ sent' = st.sent
  /\ calls' = st.calls
  /\ subs' = st.subs
  /\ lastOff' = st.lastOff
  /\ onces' = st.onces
  /\ rpcs' = st.rpcs
  /\ checked' = st.checked

\* one call: its arguments (for onNative: the event's envelope and, as
\* `res`, the property that carried it) and its outcome (`threw`, and for
\* emit, as `res`, what it called)
Call(op, type, handler, data, threw, res) ==
  [op |-> op, type |-> type, handler |-> handler, data |-> data,
   threw |-> threw, res |-> res]
NoCall == Call("none", NullT, Undefined, "", "none", "")
Last(s) == IF s = <<>> THEN NoCall ELSE s[Len(s)]

\* the array a pass iterates: events[type] itself while that array is
\* still the one stored in the table, the pass's own reference afterwards
Arr(ev, f) == IF f.live THEN ev[f.key] ELSE f.arr

\* `events[type] = ...` of off stores a NEW array: a pass iterating the
\* old one keeps the old one
Detach(ev, stk, key) ==
  [n \in DOMAIN stk |->
     IF stk[n].live /\ stk[n].key = key
     THEN [stk[n] EXCEPT !.live = FALSE, !.arr = ev[key]]
     ELSE stk[n]]

RECURSIVE Without(_, _)
\* the list `s` with every entry equal to `h` taken out
Without(s, h) ==
  IF s = <<>> THEN <<>>
  ELSE IF s[1] = h THEN Without(Tail(s), h)
  ELSE <<s[1]>> \o Without(Tail(s), h)

\* history of a successful subscribe / unsubscribe of an event-type name
SubsOn(sb, type, handler) ==
  IF IsTypeName(type)
  THEN [sb EXCEPT ![type.v] = Append(@, handler)]
  ELSE sb
NoOff == [h |-> [kind |-> "none", id |-> 0], was |-> <<>>]
LastOffOn(lo, type) ==
  IF IsTypeName(type) THEN [lo EXCEPT ![type.v] = NoOff] ELSE lo
LastOffOff(lo, sb, type, handler) ==
  IF IsTypeName(type)
  THEN [lo EXCEPT ![type.v] = [h |-> handler, was |-> sb[type.v]]]
  ELSE lo
SubsOff(sb, type, handler) ==
  IF IsTypeName(type)
  THEN [sb EXCEPT ![type.v] = IF Truthy(handler) THEN Without(@, handler)
                              ELSE <<>>]
  ELSE sb

DoOn(st, type, handler) ==
  LET r == on(st.events, type, handler) IN
  [st EXCEPT !.events = r.events,
             !.calls = Append(@, Call("on", type, handler, "", r.threw, "")),
             !.subs = IF r.threw = "none" THEN SubsOn(@, type, handler)
                      ELSE @,
             !.lastOff = IF r.threw = "none" THEN LastOffOn(@, type) ELSE @]

DoOff(st, type, handler) ==
  LET r == off(st.events, type, handler) IN
  [st EXCEPT !.events = r.events,
             !.stack = Detach(st.events, @, ToPropertyKey(type)),
             !.calls = Append(@, Call("off", type, handler, "", r.threw, "")),
             !.subs = IF r.threw = "none" THEN SubsOff(@, type, handler)
                      ELSE @,
             !.lastOff = IF r.threw = "none"
                         THEN LastOffOff(@, st.subs, type, handler)
                         ELSE @]

Range(s) == {s[n] : n \in DOMAIN s}

\* the adapter function that the n-th once call made
OnceFn(n) == [kind |-> "once", id |-> n]
\* the reply handler that the m-th rpc call made
RpcFn(m) == [kind |-> "rpc", id |-> m]

\* An inbound DOM event: `field` is the property that carries the envelope.
Event(field, type, data) == [field |-> field, type |-> type, data |-> data]
Events == {Event(f, t, d) : f \in {"detail", "details"}, t \in TypeArgs,
                            d \in Payloads}

\* a handler called with no argument, and one called with the whole
\* details object
Argument_none(e) == "undefined"
Argument_event(e) == "{type,data}"
\* what forEach's callback hands to each handler: the data of the event
Argument(e) == e.data

\* function onNative ({details: {type, data}}): the destructuring and the
\* start of the forEach
onNative(st, e) ==
  IF e.field # "details"
  THEN [st EXCEPT !.calls =
          Append(@, Call("onNative", e.type, Undefined, e.data, "TypeError",
                         e.field))]
  ELSE LET key == ToPropertyKey(e.type)
           has == key \in DOMAIN st.events
           f == [key |-> key, type |-> e.type, data |-> Argument(e),
                 live |-> has, arr |-> <<>>,
                 len |-> Len(Lookup(st.events, key)), i |-> 0,
                 \* the exception the forEach has ended with
                 raised |-> "none",
                 fired |-> <<>>,
                 \* history: the list at the start of the pass, and the
                 \* index of the handler that threw
                 snap |-> Lookup(st.events, key),
                 threwAt |-> 0,
                 \* history: the event as it was delivered, and what the
                 \* calls before the pass left for it
                 event |-> e,
                 named |-> IsTypeName(e.type),
                 expected |-> IF IsTypeName(e.type) THEN st.subs[key]
                              ELSE <<>>,
                 lastOff |-> IF IsTypeName(e.type) THEN st.lastOff[key]
                             ELSE NoOff]
       IN [st EXCEPT !.stack = Append(@, f),
                     !.calls = Append(@, Call("onNative", e.type, Undefined,
                                              e.data, "none", e.field)),
                     \* history: the adapters this pass is going to call
                     !.onces = [n \in DOMAIN @ |->
                                  IF OnceFn(n) \in Range(Lookup(st.events, key))
                                  THEN [@[n] EXCEPT !.seen = TRUE]
                                  ELSE @[n]]]

DoEmit(st, type, data, reply) ==
  LET r == emit(st.window, type, data)
      st1 == [st EXCEPT !.sent = IF r.msg = <<>> THEN @ ELSE Append(@, r.msg[1]),
                        !.calls = Append(@, Call("emit", type, Undefined, data,
                                                 r.threw, r.res))]
  IN IF r.msg # <<>> /\ reply # <<>> THEN onNative(st1, reply[1]) ELSE st1

\* ------------------------------------------------- what a handler may do
\* An application handler is arbitrary code.  Fn(1) stands for a handler
\* that, when invoked for an event of type `type`, may make one call of the
\* API for that type or make the page dispatch another 'nativebridge' event
\* of that type; the other functions are spies that only record the call.
Op(op, type, handler, e) == [op |-> op, type |-> type, handler |-> handler,
                             e |-> e]
NoEvent == Event("", NullT, "")
Nothing == Op("none", NullT, Undefined, NoEvent)
Active == {Fn(1)}
\* Fn(0) stands for a handler that may throw
Faulty == {Fn(0)}
ReOps(h, type) ==
  IF h \in Faulty THEN {Nothing, Op("throw", type, h, NoEvent)}
  ELSE IF h \notin Active THEN {Nothing}
  ELSE {Nothing}
    \cup {Op("on", type, g, NoEvent) : g \in Fns}
    \cup {Op("off", type, g, NoEvent) : g \in Fns \cup {Undefined}}
    \cup {Op("dispatch", NullT, Undefined, Event("details", type, "pong"))}

\* the environment's bounds on an operation
Allowed(st, c) ==
  CASE c.op = "on" ->
         Len(Lookup(st.events, ToPropertyKey(c.type))) < MaxLen
    [] c.op = "dispatch" -> Len(st.stack) < MaxDepth
    [] OTHER -> TRUE

\* a callback that catches what the handler throws
Throw_caught(st, c) ==
  [st EXCEPT !.calls = Append(@, Call("handler", c.type, c.handler, "",
                                      "Error", ""))]
\* a handler throws: nothing catches in the callback, in forEach or in
\* onNative, so the innermost pass ends with the exception
Throw(st, c) ==
  [st EXCEPT !.stack[Len(st.stack)].raised = "Error",
             !.calls = Append(@, Call("handler", c.type, c.handler, "",
                                      "Error", ""))]

Apply(st, c) ==
  CASE c.op = "on" -> DoOn(st, c.type, c.handler)
    [] c.op = "off" -> DoOff(st, c.type, c.handler)
    [] c.op = "dispatch" -> onNative(st, c.e)
    [] c.op = "throw" -> Throw(st, c)
    [] OTHER -> st

\* once(type, handler): subscribes an adapter for the handler
DoOnce(st, type, handler) ==
  IF ~IsTypeName(type) \/ ~IsFunction(handler)
  THEN [st EXCEPT !.calls = Append(@, Call("once", type, handler, "",
                                           "InvalidArgument", ""))]
  ELSE LET n == Len(st.onces) + 1
           st1 == [st EXCEPT
                     !.onces = Append(@, [type |-> type, h |-> handler,
                                          count |-> 0, seen |-> FALSE]),
                     !.calls = Append(@, Call("once", type, handler, "",
                                              "none", ""))]
       IN DoOn(st1, type, OnceFn(n))

HasErrors(data) == data = "{errors}"

\* an error object; the timeout error names the type as its message and
\* carries the duration as its code
Err(name, message, code) == [name |-> name, message |-> message, code |-> code]
NoErr == Err("", "", 0)
\* the error made from the `errors` of a payload: errors.message and
\* errors.errorCode
RemoteError(data) ==
  IF data = "{errors}" THEN Err("RemoteError", "fail", 123) ELSE NoErr

\* one invocation of a continuation: resolve(v) or reject(err)
Outcome(k, v, err) == [k |-> k, v |-> v, err |-> err]

\* the reply handler of the m-th rpc call: disarms the timer, then rejects
\* a payload that has an `errors` key and resolves any other
RpcReply(st, m, data) ==
  [st EXCEPT !.rpcs[m].timer = IF @ = "armed" THEN "cleared" ELSE @,
             !.rpcs[m].outcomes =
                Append(@, IF HasErrors(data)
                          THEN Outcome("rejected", "", RemoteError(data))
                          ELSE Outcome("resolved", data, NoErr))]

\* the timer callback of the m-th rpc call: unsubscribes the one-shot
\* handler, then rejects with the timeout error
RpcTimeout(st, m) ==
  LET st1 == DoOff([st EXCEPT !.rpcs[m].timer = "fired"],
                   st.rpcs[m].type, OnceFn(st.rpcs[m].once))
  IN [st1 EXCEPT !.rpcs[m].outcomes =
        Append(@, Outcome("timedout", "",
                          Err("Timeout", st.rpcs[m].type.v,
                              st.rpcs[m].timeout)))]

\* validateRpcInput that tells a structured object by typeof, for which
\* null and a list are objects too
validateRpcInput_typeof(a) ==
  IF ~(a.type.t = "string" /\ a.type.v # "")
  THEN Verdict("InvalidArgument", "", "type")
  ELSE IF a.data.t \notin {"object", "null", "array"}
  THEN Verdict("InvalidArgument", "", "data")
  ELSE IF a.resolve.t # "function"
  THEN Verdict("InvalidArgument", "", "resolve")
  ELSE IF a.reject.t # "function"
  THEN Verdict("InvalidArgument", "", "reject")
  ELSE IF a.timeout.t \notin {"undefined", "number"}
  THEN Verdict("InvalidArgument", "", "timeout")
  ELSE Verdict("none", "true", "")

\* validateRpcInput that does not look at timeout
validateRpcInput_lax(a) ==
  IF ~(a.type.t = "string" /\ a.type.v # "")
  THEN Verdict("InvalidArgument", "", "type")
  ELSE IF a.data.t # "object"
  THEN Verdict("InvalidArgument", "", "data")
  ELSE IF a.resolve.t # "function"
  THEN Verdict("InvalidArgument", "", "resolve")
  ELSE IF a.reject.t # "function"
  THEN Verdict("InvalidArgument", "", "reject")
  ELSE Verdict("none", "true", "")

\* validateRpcInput({type, data, resolve, reject, timeout}): true, or
\* InvalidArgument for the first field that fails
validateRpcInput(a) ==
  IF ~(a.type.t = "string" /\ a.type.v # "")
  THEN Verdict("InvalidArgument", "", "type")
  ELSE IF a.data.t # "object"
  THEN Verdict("InvalidArgument", "", "data")
  ELSE IF a.resolve.t # "function"
  THEN Verdict("InvalidArgument", "", "resolve")
  ELSE IF a.reject.t # "function"
  THEN Verdict("InvalidArgument", "", "reject")
  ELSE IF a.timeout.t \notin {"undefined", "number"}
  THEN Verdict("InvalidArgument", "", "timeout")
  ELSE Verdict("none", "true", "")

\* the timeout of a call in time units: the number given, the default
\* when none is given
DefaultTimeout == 10000
Millis == {0, 1000, DefaultTimeout}
TimeoutOf(a) ==
  IF a.timeout.t = "number" /\ \E n \in Millis : ToString(n) = a.timeout.v
  THEN CHOOSE n \in Millis : ToString(n) = a.timeout.v
  ELSE DefaultTimeout

\* rpc({type, data, resolve, reject, timeout}) with valid input: registers
\* the one-shot reply handler, arms the timer, emits the envelope
DoRpc(st, type, data, timeout, reply) ==
  LET m == Len(st.rpcs) + 1
      st1 == DoOnce([st EXCEPT !.calls = Append(@, Call("rpc", type,
                                          Undefined, data, "none", ""))],
                    type, RpcFn(m))
      st2 == [st1 EXCEPT !.rpcs = Append(@, [type |-> type,
                                             once |-> Len(st1.onces),
                                             timeout |-> timeout,
                                             timer |-> "armed",
                                             outcomes |-> <<>>,
                                             replies |-> <<>>])]
  IN DoEmit(st2, type, data, reply)

\* rpc({type, data, resolve, reject, timeout}): validates its input first
rpc(st, a, reply) ==
  LET v == validateRpcInput(a)
      st0 == [st EXCEPT !.checked = [args |-> a, out |-> v]]
  IN IF v.threw # "none"
     THEN [st0 EXCEPT !.calls = Append(@, Call("rpc", a.type, Undefined, "{}",
                                               v.threw, v.field))]
     ELSE DoRpc(st0, a.type, "{}", TimeoutOf(a), reply)

\* the application function behind a subscribed function: the wrapped
\* handler of an adapter, the function itself otherwise
Wrapped(st, h) == IF h.kind = "once" THEN st.onces[h.id].h ELSE h

\* the adapter made by once: unsubscribes itself, then calls the handler
Adapter(st, h) ==
  [DoOff(st, st.onces[h.id].type, h) EXCEPT !.onces[h.id].count = @ + 1]

\* handler(data) for the handler at the pass's next index; `c` is what
\* the application function does when it is reached
Handle(st, h, data, c) ==
  LET st1 == IF h.kind = "once" THEN Adapter(st, h) ELSE st
      g == Wrapped(st, h)
  IN IF g.kind = "rpc" THEN RpcReply(st1, g.id, data) ELSE Apply(st1, c)

\* ------------------------------------------------------------- actions
InitWith(windows) ==
  /\ events = NoEvents
  /\ stack = <<>>
  /\ window \in windows
  /\ sent = <<>>
  /\ calls = <<>>
  /\ subs = [k \in {t.v : t \in ValidTypes} |-> <<>>]
  /\ lastOff = [k \in {t.v : t \in ValidTypes} |-> NoOff]
  /\ onces = <<>>
  /\ rpcs = <<>>
  /\ checked = NoCheck

Init == InitWith({"webkit"})

Idle == stack = <<>>

\* the application calls on(type, handler)
On(type, handler) ==
  /\ Idle
  /\ Allowed(Cur, Op("on", type, handler, NoEvent))
  /\ Becomes(DoOn(Cur, type, handler))

\* the application calls off(type, handler) or off(type)
Off(type, handler) ==
  /\ Idle
  /\ Becomes(DoOff(Cur, type, handler))

\* the application calls emit(type, data); a bridge that takes the message
\* may answer with an inbound event before postMessage returns
Emit(type, data, reply) ==
  /\ Idle
  /\ Len(sent) < MaxSent
  /\ Becomes(DoEmit(Cur, type, data, reply))

\* window.dispatchEvent of a 'nativebridge' event by the native side
Native(e) ==
  /\ Idle
  /\ Becomes(onNative(Cur, e))

\* history: the events whose pass has called the reply handler of an
\* rpc call
Replied(rp, oc, h, e) ==
  IF h.kind = "once" /\ oc[h.id].h.kind = "rpc"
  THEN [rp EXCEPT ![oc[h.id].h.id].replies = Append(@, e)]
  ELSE rp

\* a loop that reads the length of the array before each call
Upper_live(ev, f) == Len(Arr(ev, f))
\* forEach visits the indices below the length the array had when it began
Upper(ev, f) == f.len

\* forEach calls the next handler of the innermost pass
Invoke ==
  /\ stack # <<>>
  /\ LET n == Len(stack)
         f == stack[n]
     IN /\ f.raised = "none"
        /\ f.i < Upper(events, f)
        /\ LET h == Arr(events, f)[f.i + 1]
               st == [Cur EXCEPT !.stack[n].i = f.i + 1,
                                 !.stack[n].fired = Append(@, <<h, f.data>>),
                                 !.rpcs = Replied(@, onces, h, f.event)]
           IN \E c \in ReOps(Wrapped(st, h), f.type) :
                 /\ Allowed(st, c)
                 /\ Becomes(Handle(
                      IF c.op = "throw"
                      THEN [st EXCEPT !.stack[n].threwAt = f.i + 1] ELSE st,
                      h, f.data, c))

\* the application calls once(type, handler)
Once(type, handler) ==
  /\ Idle
  /\ Len(onces) < MaxOnce
  /\ Allowed(Cur, Op("on", type, handler, NoEvent))
  /\ Becomes(DoOnce(Cur, type, handler))

\* the application calls rpc; a bridge that takes the message may answer
\* before postMessage returns
Rpc(a, reply) ==
  /\ Idle
  /\ Len(rpcs) < MaxRpc \/ validateRpcInput(a).threw # "none"
  /\ Allowed(Cur, Op("on", a.type, RpcFn(0), NoEvent))
  /\ Becomes(rpc(Cur, a, reply))

\* the application calls validateRpcInput
Validate(a) ==
  /\ Idle
  /\ Becomes([Cur EXCEPT !.checked = [args |-> a,
                                      out |-> validateRpcInput(a)]])

\* the timer of an rpc call fires
TimerFire(m) ==
  /\ Idle
  /\ rpcs[m].timer = "armed"
  /\ Becomes(RpcTimeout(Cur, m))

\* forEach of the innermost pass has visited its whole range, or has ended
\* with an exception, which the dispatch of the event reports
Return ==
  /\ stack # <<>>
  /\ \/ stack[Len(stack)].i >= Upper(events, stack[Len(stack)])
     \/ stack[Len(stack)].raised # "none"
  /\ Becomes([Cur EXCEPT !.stack = SubSeq(@, 1, Len(@) - 1)])

\* The registry under well-formed calls, with handlers that call back into it.
Next ==
  \/ \E t \in ValidTypes, h \in Fns : On(t, h)
  \/ \E t \in ValidTypes, h \in Fns \cup {Undefined} : Off(t, h)
  \/ \E e \in {x \in Events : x.type \in ValidTypes} : Native(e)
  \/ Invoke
  \/ Return

Spec == Init /\ [][Next]_vars

OneType == {StrT("a")}

\* The registry under calls with any argument values; the handlers
\* subscribed here are spies.
Spies == Fns \ Active
ArgTypes == OneType \cup InvalidTypes
NextArgs ==
  \/ \E t \in ArgTypes, h \in Spies \cup {Undefined, Obj} : On(t, h)
  \/ \E t \in ArgTypes, h \in Spies \cup {Undefined, Obj} : Off(t, h)
  \/ \E e \in {x \in Events : x.type \in ArgTypes /\ x.data = "pong"} :
       Native(e)
  \/ Invoke
  \/ Return

SpecArgs == Init /\ [][NextArgs]_vars

\* emit under every kind of window; a bridge that takes the message may
\* answer at once with an event of the same type.
NextEmit ==
  \/ \E t \in ValidTypes, h \in Spies : On(t, h)
  \/ \E t \in TypeArgs, d \in EmitData :
       \E r \in {<<>>} \cup {<<e>> : e \in {x \in Events : x.type = t}} :
          Emit(t, d, r)
  \/ Invoke
  \/ Return

SpecEmit == InitWith(WindowKinds) /\ [][NextEmit]_vars

\* the events of these types that onNative can read
Replies(types) == {x \in Events : x.type \in types /\ x.field = "details"}
\* one-shot subscriptions next to plain ones, for one type
NextOnce ==
  \/ \E t \in OneType, h \in Fns : On(t, h)
  \/ \E t \in OneType, h \in Fns : Once(t, h)
  \/ \E e \in Replies(OneType) : Native(e)
  \/ Invoke
  \/ Return

SpecOnce == Init /\ [][NextOnce]_vars

\* rpc calls next to plain subscriptions, for one type
Timeouts == {0, 10000}
\* input as the tests give it: valid, with a timeout or without, and with
\* one field made invalid
GoodInput(types) ==
  {RpcInput(t, ObjT, FnT, FnT, ms) :
     t \in types, ms \in {NumT(ToString(n)) : n \in Timeouts \ {DefaultTimeout}}
                         \cup {UndefT}}
BadInput(types) ==
  UNION {{RpcInput(NumT("123"), ObjT, FnT, FnT, UndefT),
          RpcInput(t, NullT, FnT, FnT, UndefT),
          RpcInput(t, ObjT, UndefT, FnT, UndefT),
          RpcInput(t, ObjT, FnT, ObjT, UndefT),
          RpcInput(t, ObjT, FnT, FnT, StrT("123"))} : t \in types}
NextRpc ==
  \/ \E t \in OneType, h \in Fns : On(t, h)
  \/ \E a \in GoodInput(OneType) \cup BadInput(OneType) :
       \E r \in {<<>>} \cup {<<e>> : e \in Replies({a.type})} :
          Rpc(a, r)
  \/ \E m \in DOMAIN rpcs : TimerFire(m)
  \/ \E e \in Replies(ValidTypes) : Native(e)
  \/ Invoke
  \/ Return

SpecRpc == Init /\ [][NextRpc]_vars

\* validateRpcInput under every shape of input
TypeVals == {StrT("rpcMethod"), StrT(""), NumT("123"), NullT, ObjT}
DataVals == {ObjT, StrT("data"), NullT, NumT("123"), ArrT}
FnVals == {FnT, NumT("123"), UndefT, ObjT}
TimeoutVals == {NumT("1000"), UndefT, StrT("123"), NullT, ObjT}
Inputs ==
  {RpcInput(t, d, rs, rj, ms) :
     t \in TypeVals, d \in DataVals, rs \in FnVals, rj \in FnVals,
     ms \in TimeoutVals}
NextValidate == \E a \in Inputs : Validate(a)

SpecValidate == Init /\ [][NextValidate]_vars

\* handlers that throw next to handlers that call back into the registry
NextThrow ==
  \/ \E t \in OneType, h \in Fns \cup Faulty : On(t, h)
  \/ \E t \in OneType : Off(t, Undefined)
  \/ \E e \in {x \in Events : x.type \in OneType /\ x.field = "details"
                                /\ x.data = "pong"} :
       Native(e)
  \/ Invoke
  \/ Return

SpecThrow == Init /\ [][NextThrow]_vars

\* rpc calls with valid input next to spies, and the event loop: it runs a
\* timer callback that is due, so a timer that is armed whenever the
\* program is idle does fire (strong fairness, since every pass in between
\* disables it), and a pass, being synchronous, runs to its end.
NextTimer ==
  \/ \E t \in OneType, h \in Spies : On(t, h)
  \/ \E a \in GoodInput(OneType) :
       \E r \in {<<>>} \cup {<<e>> : e \in Replies({a.type})} :
          Rpc(a, r)
  \/ \E m \in DOMAIN rpcs : TimerFire(m)
  \/ \E e \in Replies(ValidTypes) : Native(e)
  \/ Invoke
  \/ Return

TimerDue(m) == m \in DOMAIN rpcs /\ TimerFire(m)
SpecRpcFair ==
  /\ Init /\ [][NextTimer]_vars
  /\ \A m \in 1..MaxRpc : SF_vars(TimerDue(m))
  /\ WF_vars(Invoke)
  /\ WF_vars(Return)

\* ------------------------------------------------------ the registry
Passes == {stack[n] : n \in DOMAIN stack}
Done(f) == f.i = f.len
FiredHandlers(f) == [n \in DOMAIN f.fired |-> f.fired[n][1]]
FiredData(f) == {f.fired[n][2] : n \in DOMAIN f.fired}
\* C1: a dispatch of an event-type name T with payload p invokes exactly
\* the handlers that the on and off calls made before it have left
\* subscribed to T, each with p, in the order of their subscription, and
\* none that is subscribed to another name only.
C1_DispatchFiresSubscribed ==
  \A f \in Passes :
    f.named =>
      /\ f.len = Len(f.expected)
      /\ f.i <= f.len
      /\ f.fired = [n \in 1..f.i |-> <<f.expected[n], f.data>>]

\* a pass has fired two different handlers in order, after an off call,
\* while another name has other subscriptions
C1_Witness ==
  \E f \in Passes :
    /\ f.named /\ Done(f) /\ f.len = 2
    /\ f.fired[1][1] # f.fired[2][1]
    /\ \E k \in DOMAIN subs : k # f.key /\ subs[k] # <<>>
                              /\ subs[k] # f.expected
    /\ \E k \in DOMAIN lastOff : lastOff[k] # NoOff

\* C2: off(type) without a handler leaves no handler subscribed to type,
\* however many there were, and every dispatch of type that starts while
\* off(type) is the latest on/off call for type invokes no handler.
C2_OffTypeRemovesAll ==
  /\ \A k \in DOMAIN lastOff :
       lastOff[k].h = Undefined => Lookup(events, k) = <<>>
  /\ \A f \in Passes :
       f.named /\ f.lastOff.h = Undefined => f.len = 0 /\ f.fired = <<>>

\* a dispatch has run after an off(type) that found two subscriptions
C2_Witness ==
  \E f \in Passes :
    f.named /\ f.lastOff.h = Undefined /\ Len(f.lastOff.was) = 2 /\ Done(f)

\* C3 (the call): off(type, h) with a handler h takes every entry equal to
\* h out of the list of type and leaves the other entries, in their order,
\* and the lists of the other types as they are.
OffHandlerStep ==
  calls' # <<>> /\ Last(calls').op = "off" /\ IsFunction(Last(calls').handler)
    => LET c == Last(calls')
           key == ToPropertyKey(c.type)
       IN /\ Lookup(events', key) = Without(Lookup(events, key), c.handler)
          /\ \A k \in Keys \ {key} : Lookup(events', k) = Lookup(events, k)

\* C3 (the next dispatch): a dispatch of type that starts while off(type, h)
\* is the latest on/off call for type fires the handlers that the call
\* found, without h, in their order, and does not fire h.
OffHandlerPass(f) ==
  f.named /\ IsFunction(f.lastOff.h) =>
    /\ f.len = Len(Without(f.lastOff.was, f.lastOff.h))
    /\ FiredHandlers(f) = SubSeq(Without(f.lastOff.was, f.lastOff.h), 1, f.i)
    /\ f.lastOff.h \notin Range(FiredHandlers(f))

C4_NoEmptyKeyAfterOff ==
  Last(calls).op = "off" => \A k \in DOMAIN events : events[k] # <<>>

\* C5: an inbound 'nativebridge' event whose `detail` is the envelope
\* {type, data} starts a dispatch of type with data: every handler
\* subscribed to type is invoked, each with exactly data.
C5_InboundForwarded ==
  /\ Last(calls).op = "onNative" /\ Last(calls).res = "detail" =>
       /\ Last(calls).threw = "none"
       /\ stack # <<>>
       /\ LET f == stack[Len(stack)]
          IN /\ f.key = ToPropertyKey(Last(calls).type)
             /\ f.data = Last(calls).data
             /\ f.len = Len(Lookup(events, f.key))
  /\ \A f \in Passes : FiredData(f) \subseteq {f.data}

\* C6 (the call): a call of on or off with a type that is not a non-empty
\* string throws.
BadTypeThrows ==
  Last(calls).op \in {"on", "off"} /\ ~IsTypeName(Last(calls).type)
    => Last(calls).threw # "none"
\* C6 (the table): such a call leaves the table as it was.
BadTypeStep ==
  calls' # <<>> /\ Last(calls').op \in {"on", "off"}
    /\ ~IsTypeName(Last(calls').type) => events' = events

\* C6: on(type, handler) and off(type, handler?) fail whenever type is not
\* a non-empty string, and the failed call leaves the table unchanged.
C6_BadTypeRejected == []BadTypeThrows /\ [][BadTypeStep]_vars

\* C7 (the call): on with a handler that is not a function throws.
BadHandlerThrows ==
  Last(calls).op = "on" /\ ~IsFunction(Last(calls).handler)
    => Last(calls).threw = "Error"
\* C7 (the table): such a call creates no key and appends no entry.
BadHandlerStep ==
  calls' # <<>> /\ Last(calls').op = "on" /\ ~IsFunction(Last(calls').handler)
    => events' = events

\* C7: on(type, handler) fails with an error whenever handler is not
\* callable, and the failed call leaves the table unchanged.
C7_BadHandlerRejected == []BadHandlerThrows /\ [][BadHandlerStep]_vars

\* on has thrown for a handler that is not a function, and the table has
\* no key for the call's type while it has subscriptions for another
C7_Witness ==
  /\ Last(calls).op = "on" /\ ~IsFunction(Last(calls).handler)
  /\ Last(calls).threw = "Error"
  /\ ToPropertyKey(Last(calls).type) \notin DOMAIN events
  /\ \E k \in DOMAIN events : events[k] # <<>>

\* C8 (the call): emit throws when the window offers no native bridge.
Bridges == {"webkit", "android"}
EmitThrowsWithoutBridge ==
  Last(calls).op = "emit" /\ window \notin Bridges
    => Last(calls).threw # "none"
\* C8 (the message): without a bridge nothing is sent; with one, the call
\* hands it one message, for the envelope {type, data}.
EmitStep ==
  calls' # <<>> /\ calls'[1].op = "emit" =>
    IF window \in Bridges
    THEN /\ Len(sent') = Len(sent) + 1
         /\ SubSeq(sent', 1, Len(sent)) = sent
         /\ sent'[Len(sent')] \in
              {Message("object", Envelope(calls'[1].type,
                                          DefaultData(calls'[1].data)), ""),
               Message("json", NoEnvelope,
                       Stringify(calls'[1].type, DefaultData(calls'[1].data)))}
    ELSE sent' = sent

\* C8: emit(type, data) fails at the call site when no supported native
\* transport is detected, and sends nothing then; when one is detected it
\* hands exactly one envelope {type, data} to it.
C8_EmitNeedsBridge == []EmitThrowsWithoutBridge /\ [][EmitStep]_vars

\* C9: once(type, h) makes h a one-shot handler: whatever dispatches of
\* type follow the call, h is invoked at most once, and it has been invoked
\* once when the dispatches that found its adapter subscribed are over.
C9_OnceFiresOnce ==
  \A n \in DOMAIN onces :
    /\ onces[n].count <= 1
    /\ Idle /\ onces[n].seen => onces[n].count = 1

\* C10: for every rpc call that passes validation, at most one of its
\* resolve and reject continuations is invoked, at most once, whatever the
\* order of replies and timer firings.
C10_RpcSettlesOnce ==
  \A m \in DOMAIN rpcs : Len(rpcs[m].outcomes) <= 1

\* ---- rpc: replies and the timeout ----

\* how many entries of a list are the handler
Count(h, list) == Len(SelectSeq(list, LAMBDA fn : fn = h))

\* the outcomes a call has when each reply its handler got was resolved
Resolved(replies) ==
  [n \in DOMAIN replies |-> Outcome("resolved", replies[n].data, NoErr)]

\* the replies of the call's own type that carry no `errors` key
CleanReplies(r) ==
  /\ r.replies # <<>>
  /\ \A n \in DOMAIN r.replies :
       r.replies[n].type = r.type /\ ~HasErrors(r.replies[n].data)

NoReply(r) == \A n \in DOMAIN r.replies : r.replies[n].type # r.type

\* reject(Timeout) for the call's type and duration, and nothing else
TimedOut(r) ==
  <<Outcome("timedout", "", Err("Timeout", r.type.v, r.timeout))>>

Settled(m) == m \in DOMAIN rpcs /\ rpcs[m].outcomes # <<>>

\* C12: an rpc call that no reply of its type reaches never invokes resolve,
\* and invokes reject only with the Timeout error that names its type; and
\* with timers scheduled fairly every call, also one with timeout 0, is
\* eventually settled, so that a call without a reply is eventually rejected
\* with that error
C12_NoReplyTimesOut ==
  /\ [](\A m \in DOMAIN rpcs :
          NoReply(rpcs[m]) => rpcs[m].outcomes \in {<<>>, TimedOut(rpcs[m])})
  /\ \A m \in 1..MaxRpc : (m \in DOMAIN rpcs) ~> Settled(m)

\* a call with timeout 0 and no reply has been rejected by its timer, and
\* an event of another type has been dispatched since
C12_Witness ==
  \E m \in DOMAIN rpcs :
    /\ rpcs[m].timeout = 0
    /\ rpcs[m].replies = <<>>
    /\ rpcs[m].outcomes = TimedOut(rpcs[m])
    /\ \E f \in Passes : f.type # rpcs[m].type

\* the replies of the call's own type that all carry an `errors` key
ErrorReplies(r) ==
  /\ r.replies # <<>>
  /\ \A n \in DOMAIN r.replies :
       r.replies[n].type = r.type /\ r.replies[n].data = "{errors}"

C17_LateReplyDropped ==
  \A m \in DOMAIN rpcs :
    rpcs[m].timer = "fired" =>
      /\ rpcs[m].outcomes = TimedOut(rpcs[m])
      /\ rpcs[m].replies = <<>>
      /\ \A k \in DOMAIN events :
           Count(OnceFn(rpcs[m].once), events[k]) = 0
      /\ \A f \in Passes : Count(OnceFn(rpcs[m].once), f.snap) = 0

\* a reply of the call's type is being dispatched after the timeout fired
C17_Witness ==
  \E m \in DOMAIN rpcs : \E f \in Passes :
    /\ rpcs[m].timer = "fired"
    /\ f.type = rpcs[m].type
    /\ f.event.data = "pong"
    /\ Done(f)
    /\ f.len > 0

\* C18: an rpc call with timeout 0 ends rejected with the Timeout error and
\* never resolved, whatever reply comes, also a reply that the bridge
\* dispatches while emit is still sending the call's message
C18_ZeroTimeoutWins ==
  \A m \in DOMAIN rpcs :
    rpcs[m].timeout = 0 =>
      rpcs[m].outcomes \in {<<>>, TimedOut(rpcs[m])}

\* ---- rpc: the input ----

\* the fields of an input that are not what rpc takes
BadFields(a) ==
  {f \in {"type"} : ~IsTypeName(a.type)}
    \cup {f \in {"data"} :
            a.data.t \in {"string", "number", "null", "array"}
              \/ a.data.t # "object"}
    \cup {f \in {"resolve"} : a.resolve.t # "function"}
    \cup {f \in {"reject"} : a.reject.t # "function"}
    \cup {f \in {"timeout"} : a.timeout.t # "undefined"
                               /\ a.timeout.t # "number"}

\* the step in which rpc is called
RpcStep == calls' # <<>> /\ calls'[1].op = "rpc"

\* C14: rpc called with an input that has an invalid field fails at once
\* with InvalidArgument and does nothing else: it subscribes no handler,
\* arms no timer, sends no message and starts no call whose resolve or
\* reject could ever be invoked
C14_BadInputNoEffect ==
  [][RpcStep /\ BadFields(checked'.args) # {} =>
       /\ Len(calls') = 1
       /\ calls'[1].threw = "InvalidArgument"
       /\ events' = events
       /\ onces' = onces
       /\ rpcs' = rpcs
       /\ sent' = sent
       /\ stack' = stack]_vars

\* rpc has refused an input whose timeout is a string, while an earlier
\* call is waiting for its reply
C14_Witness ==
  /\ calls # <<>>
  /\ calls[1].op = "rpc"
  /\ calls[1].threw = "InvalidArgument"
  /\ checked.args.timeout = StrT("123")
  /\ Len(rpcs) = 1
  /\ rpcs[1].timer = "armed"

\* C15: validateRpcInput returns true exactly when type is a non-empty
\* string, data is a structured object (no string, number, null or list),
\* resolve and reject are callable and timeout is absent or a number; for
\* any other input it fails with InvalidArgument for a field that is
\* invalid
C15_ValidateExact ==
  checked # NoCheck =>
    /\ (checked.out.threw = "none" /\ checked.out.res = "true")
         <=> BadFields(checked.args) = {}
    /\ BadFields(checked.args) # {} =>
         /\ checked.out.threw = "InvalidArgument"
         /\ checked.out.res = ""
         /\ checked.out.field \in BadFields(checked.args)

\* validateRpcInput has refused an input whose only invalid field is a list
\* given as data
C15_Witness ==
  /\ checked.args = RpcInput(StrT("rpcMethod"), ArrT, FnT, FnT, NumT("1000"))
  /\ checked.out = Verdict("InvalidArgument", "", "data")

\* ---- calls made during a pass ----

\* C16: a pass invokes the handlers that were in the list of its type when
\* the pass started, in the order of that list, and no others, whatever
\* on(T, g), off(T) and off(T, g) calls its handlers make while it runs
C16_PassKeepsStartList ==
  \A f \in Passes :
    /\ f.len = Len(f.snap)
    /\ f.i <= Len(f.snap)
    /\ FiredHandlers(f) = SubSeq(f.snap, 1, f.i)

\* a pass over two handlers has ended after its first handler called off
\* and its second called on, which left the table with another list
C16_Witness ==
  \E f \in Passes :
    /\ Done(f)
    /\ f.len = 2
    /\ ~f.live
    /\ Lookup(events, f.key) # <<>>
    /\ Lookup(events, f.key) # f.snap
    /\ calls # <<>>
    /\ Last(calls).op = "on"

\* the call of on or off that a step has made last, if it succeeded
Called(op) ==
  /\ calls' # <<>>
  /\ Last(calls').op = op
  /\ Last(calls').threw = "none"
  /\ Last(calls').handler \in Fns

\* C19: the list of a type is a multiset in subscription order: on(T, h)
\* appends an entry also when h is already subscribed to T, a pass invokes
\* h as many times as the list held it when the pass started, and one
\* off(T, h) removes all of h's entries
C19_DuplicatesKept ==
  /\ [](\A f \in Passes : \A h \in Fns :
          Done(f) => Count(h, FiredHandlers(f)) = Count(h, f.snap))
  /\ [][Called("on") =>
          Lookup(events', ToPropertyKey(Last(calls').type))
            = Append(Lookup(events, ToPropertyKey(Last(calls').type)),
                     Last(calls').handler)]_vars
  /\ [][Called("off") =>
          Count(Last(calls').handler,
                Lookup(events', ToPropertyKey(Last(calls').type))) = 0]_vars

\* a pass has invoked a handler subscribed twice both times, and the one
\* off(T, h) its second invocation made has left the list without h
C19_Witness ==
  \E f \in Passes : \E h \in Fns :
    /\ Done(f)
    /\ f.snap = <<h, h>>
    /\ FiredHandlers(f) = <<h, h>>
    /\ calls # <<>>
    /\ Last(calls) = Call("off", f.type, h, "", "none", "")
    /\ Count(h, Lookup(events, f.key)) = 0

\* ---- a handler that throws ----

\* the step in which a handler throws
ThrowStep == calls' # <<>> /\ Last(calls').op = "handler"

\* C20: when a handler throws during a pass, forEach and onNative end with
\* that exception, which so reaches whoever delivered the event; no handler
\* after the failing one is invoked for that event, and the step leaves the
\* table as it was before the failing handler ran
C20_ThrowAbortsPass ==
  /\ [](\A f \in Passes :
          f.threwAt # 0 =>
            /\ f.raised = "Error"
            /\ f.i = f.threwAt
            /\ Len(f.fired) = f.threwAt)
  /\ [][ThrowStep => events' = events]_vars

\* the first of two handlers has thrown
C20_Witness ==
  \E f \in Passes :
    /\ f.threwAt = 1
    /\ f.len = 2
    /\ f.snap[2] \in Fns

====
